---- MODULE Spec2Model ----
(***************************************************************************)
(* Model of JsonToZod.ts: the JSON-Schema -> Zod translator.               *)
(*                                                                         *)
(* Text is modelled as a sequence of chunks.  Property names, paths and    *)
(* generated identifiers are sequences of one-character chunks so that     *)
(* split / includes / endsWith / replace / toLowerCase are computed as the *)
(* code computes them; fixed pieces of emitted code ("z.string()",         *)
(* ".optional()") are single chunks of several characters.                 *)
(***************************************************************************)
EXTENDS Integers, Sequences, FiniteSets, TLC

\* ------------------------------------------------------------------------
\* Characters and strings
\* ------------------------------------------------------------------------
LowerLetters == <<"a","b","c","d","e","f","g","h","i","j","k","l","m",
                  "n","o","p","q","r","s","t","u","v","w","x","y","z">>
UpperLetters == <<"A","B","C","D","E","F","G","H","I","J","K","L","M",
                  "N","O","P","Q","R","S","T","U","V","W","X","Y","Z">>
Digits == {"0","1","2","3","4","5","6","7","8","9"}

IndexIn(c, s) == IF \E i \in 1..Len(s) : s[i] = c
                 THEN CHOOSE i \in 1..Len(s) : s[i] = c
                 ELSE 0

\* String.prototype.toUpperCase / toLowerCase on one character
CharToUpper(c) == IF IndexIn(c, LowerLetters) > 0
                  THEN UpperLetters[IndexIn(c, LowerLetters)] ELSE c
CharToLower(c) == IF IndexIn(c, UpperLetters) > 0
                  THEN LowerLetters[IndexIn(c, UpperLetters)] ELSE c
toUpperCase(s) == [i \in 1..Len(s) |-> CharToUpper(s[i])]
toLowerCase(s) == [i \in 1..Len(s) |-> CharToLower(s[i])]

\* String.prototype.includes / endsWith / indexOf (1-based, 0 = not found)
OccursAt(s, sub, i) == /\ i >= 1
                       /\ i + Len(sub) - 1 <= Len(s)
                       /\ \A j \in 1..Len(sub) : s[i + j - 1] = sub[j]
includes(s, sub) == \E i \in 1..(Len(s) + 1) : OccursAt(s, sub, i)
endsWith(s, sub) == Len(sub) <= Len(s) /\ OccursAt(s, sub, Len(s) - Len(sub) + 1)
indexOf(s, sub) == IF includes(s, sub)
                   THEN CHOOSE i \in 1..(Len(s) + 1) :
                          /\ OccursAt(s, sub, i)
                          /\ \A k \in 1..(i - 1) : ~OccursAt(s, sub, k)
                   ELSE 0

\* String.prototype.replace(sub, rep) with a string pattern: first occurrence only
replace(s, sub, rep) ==
    LET i == indexOf(s, sub)
    IN IF i = 0 THEN s
       ELSE SubSeq(s, 1, i - 1) \o rep \o SubSeq(s, i + Len(sub), Len(s))

\* String.prototype.split(sep) for a one-character separator: the pieces
\* between separators, empty pieces included
RECURSIVE SplitFrom(_, _, _)
SplitFrom(s, seps, cur) ==
    IF s = <<>> THEN <<cur>>
    ELSE IF Head(s) \in seps
         THEN <<cur>> \o SplitFrom(Tail(s), seps, <<>>)
         ELSE SplitFrom(Tail(s), seps, Append(cur, Head(s)))
split(s, sep) == SplitFrom(s, {sep}, <<>>)

\* Array.prototype.join
RECURSIVE join(_, _)
join(parts, sep) ==
    IF parts = <<>> THEN <<>>
    ELSE IF Len(parts) = 1 THEN parts[1]
    ELSE parts[1] \o sep \o join(Tail(parts), sep)

\* JSON.stringify of a string without characters that need escaping
Quote(s) == <<"\"">> \o s \o <<"\"">>

\* ------------------------------------------------------------------------
\* toPascalCase (JsonToZod.ts:27-32)
\* ------------------------------------------------------------------------
WordDelims == {"_", " ", "-"}

\* str.split(/[_\s-]+/): a run of delimiters separates two words; the empty
\* words a leading or trailing run produces are kept, as in JavaScript
RECURSIVE DropDelims(_)
DropDelims(s) == IF s # <<>> /\ Head(s) \in WordDelims THEN DropDelims(Tail(s)) ELSE s
RECURSIVE SplitWords(_, _)
SplitWords(s, cur) ==
    IF s = <<>> THEN <<cur>>
    ELSE IF Head(s) \in WordDelims
         THEN <<cur>> \o SplitWords(DropDelims(s), <<>>)
         ELSE SplitWords(Tail(s), Append(cur, Head(s)))

\* word.charAt(0).toUpperCase() + word.slice(1).toLowerCase()
Capitalize(word) ==
    IF word = <<>> THEN <<>>
    ELSE <<CharToUpper(word[1])>> \o toLowerCase(Tail(word))

toPascalCase(str) ==
    LET words == SplitWords(str, <<>>)
    IN join([i \in 1..Len(words) |-> Capitalize(words[i])], <<>>)

\* ------------------------------------------------------------------------
\* isValidIdentifier / formatPropertyName (JsonToZod.ts:34-45)
\* ------------------------------------------------------------------------
IsLetter(c) == IndexIn(c, LowerLetters) > 0 \/ IndexIn(c, UpperLetters) > 0
isValidIdentifier(name) ==
    /\ Len(name) >= 1
    /\ (IsLetter(name[1]) \/ name[1] \in {"_", "$"})
    /\ \A i \in 2..Len(name) : IsLetter(name[i]) \/ name[i] \in Digits \cup {"_", "$"}

formatPropertyName(name) == IF isValidIdentifier(name) THEN name ELSE Quote(name)

\* ------------------------------------------------------------------------
\* generateSchemaName (JsonToZod.ts:47-52)
\* ------------------------------------------------------------------------
SchemaSuffix == <<"S","c","h","e","m","a">>
ItemsWord == <<"i","t","e","m","s">>
PropertiesWord == <<"p","r","o","p","e","r","t","i","e","s">>

generateSchemaName(pathStr) ==
    LET all == split(pathStr, ".")
        parts == SelectSeq(all, LAMBDA p : p # <<>> /\ p # ItemsWord /\ p # PropertiesWord)
    IN IF Len(parts) = 0 THEN SchemaSuffix
       ELSE toPascalCase(parts[Len(parts)]) \o SchemaSuffix

\* ------------------------------------------------------------------------
\* JsonSchema (JsonToZod.ts:4-19)
\*
\* A schema node is a record.  An optional field is <<>> when absent and
\* <<v>> when present.  type is the sequence of type tags; typeIsList tells
\* the JSON string "object" (FALSE) from the JSON list ["object"] (TRUE).
\* properties holds a sequence of <<name, node>> pairs in the object's key
\* order.  additionalProperties is <<>>, <<[bool |-> b]>> or
\* <<[schema |-> node]>>.  ord is the order of the node's own keys, which
\* JSON.stringify follows.
\* ------------------------------------------------------------------------
KeyOrder == <<"type", "properties", "items", "required", "enum", "pattern",
              "minimum", "maximum", "minItems", "maxItems", "format",
              "description", "additionalProperties">>
\* the same keys with properties written before type
KeyOrderPropsFirst == <<"properties", "type", "items", "required", "enum", "pattern",
              "minimum", "maximum", "minItems", "maxItems", "format",
              "description", "additionalProperties">>

EmptyNode == [ord |-> KeyOrder, typeIsList |-> FALSE, type |-> <<>>,
              properties |-> <<>>, items |-> <<>>, required |-> <<>>,
              enum |-> <<>>, pattern |-> <<>>, minimum |-> <<>>, maximum |-> <<>>,
              minItems |-> <<>>, maxItems |-> <<>>, format |-> <<>>,
              description |-> <<>>, additionalProperties |-> <<>>]

Typed(t) == [EmptyNode EXCEPT !.type = <<t>>]
TypeList(ts) == [EmptyNode EXCEPT !.type = ts, !.typeIsList = TRUE]

\* JavaScript truthiness of an optional string field ("" is falsy)
TruthyStr(f) == f # <<>> /\ f[1] # ""

\* { ...schema, type: t } (JsonToZod.ts:105, 111): the key order is kept
WithType(schema, t) == [schema EXCEPT !.type = <<t>>, !.typeIsList = FALSE]

\* ------------------------------------------------------------------------
\* JSON.stringify(schema) (JsonToZod.ts:61, 89): the signature
\* ------------------------------------------------------------------------
RECURSIVE Stringify(_)
RECURSIVE StringifyField(_, _)
RECURSIVE StringifyProps(_)

StringifyStrings(vals) ==
    <<"[">> \o join([i \in 1..Len(vals) |-> <<"\"" \o vals[i] \o "\"">>], <<",">>) \o <<"]">>

StringifyNames(names) ==
    <<"[">> \o join([i \in 1..Len(names) |-> Quote(names[i])], <<",">>) \o <<"]">>

StringifyProps(props) ==
    <<"{">> \o join([i \in 1..Len(props) |->
                       Quote(props[i][1]) \o <<":">> \o Stringify(props[i][2])], <<",">>)
            \o <<"}">>

\* the text of one key of the node, <<>> when the key is absent
StringifyField(n, k) ==
    CASE k = "type" ->
           IF n.type = <<>> /\ ~n.typeIsList THEN <<>>
           ELSE IF n.typeIsList THEN <<"\"type\":">> \o StringifyStrings(n.type)
           ELSE <<"\"type\":", "\"" \o n.type[1] \o "\"">>
      [] k = "properties" ->
           IF n.properties = <<>> THEN <<>>
           ELSE <<"\"properties\":">> \o StringifyProps(n.properties[1])
      [] k = "items" ->
           IF n.items = <<>> THEN <<>>
           ELSE <<"\"items\":">> \o Stringify(n.items[1])
      [] k = "required" ->
           IF n.required = <<>> THEN <<>>
           ELSE <<"\"required\":">> \o StringifyNames(n.required[1])
      [] k = "enum" ->
           IF n.enum = <<>> THEN <<>>
           ELSE <<"\"enum\":">> \o StringifyStrings(n.enum[1])
      [] k = "pattern" ->
           IF n.pattern = <<>> THEN <<>>
           ELSE <<"\"pattern\":", "\"" \o n.pattern[1] \o "\"">>
      [] k = "minimum" ->
           IF n.minimum = <<>> THEN <<>>
           ELSE <<"\"minimum\":", ToString(n.minimum[1])>>
      [] k = "maximum" ->
           IF n.maximum = <<>> THEN <<>>
           ELSE <<"\"maximum\":", ToString(n.maximum[1])>>
      [] k = "minItems" ->
           IF n.minItems = <<>> THEN <<>>
           ELSE <<"\"minItems\":", ToString(n.minItems[1])>>
      [] k = "maxItems" ->
           IF n.maxItems = <<>> THEN <<>>
           ELSE <<"\"maxItems\":", ToString(n.maxItems[1])>>
      [] k = "format" ->
           IF n.format = <<>> THEN <<>>
           ELSE <<"\"format\":", "\"" \o n.format[1] \o "\"">>
      [] k = "description" ->
           IF n.description = <<>> THEN <<>>
           ELSE <<"\"description\":", "\"" \o n.description[1] \o "\"">>
      [] k = "additionalProperties" ->
           IF n.additionalProperties = <<>> THEN <<>>
           ELSE IF "bool" \in DOMAIN n.additionalProperties[1]
                THEN <<"\"additionalProperties\":",
                       IF n.additionalProperties[1].bool THEN "true" ELSE "false">>
                ELSE <<"\"additionalProperties\":">>
                       \o Stringify(n.additionalProperties[1].schema)

Stringify(n) ==
    LET fields == [i \in 1..Len(n.ord) |-> StringifyField(n, n.ord[i])]
        present == SelectSeq(fields, LAMBDA f : f # <<>>)
    IN <<"{">> \o join(present, <<",">>) \o <<"}">>

\* ------------------------------------------------------------------------
\* jsonSchemaToZod (JsonToZod.ts:79-234)
\*
\* subSchemas is a Map<string, SubSchema>: a sequence, in insertion order, of
\* entries [key, name, schema, path].  fieldName is <<>> (undefined) or
\* <<name>>.
\* ------------------------------------------------------------------------
Indent(depth) == [i \in 1..depth |-> "  "]

\* the entries of a map whose key is sig
Lookup(subSchemas, sig) ==
    SelectSeq(subSchemas, LAMBDA e : e.key = sig)

\* `.describe(${JSON.stringify(schema.description)})` when description is truthy
Describe(schema) ==
    IF TruthyStr(schema.description)
    THEN <<".describe(", "\"" \o schema.description[1] \o "\"", ")">>
    ELSE <<>>

\* schema.pattern.includes('[0-9a-fA-F]{8}'): the patterns of the model that
\* contain the 8-hex-digit group
HexGroupPatterns == {"^[0-9a-fA-F]{8}-[0-9a-fA-F]{4}$"}

UuidWord == <<"u","u","i","d">>
GuidWord == <<"g","u","i","d">>
IdSuffix == <<"_","i","d">>

\* FieldNameIsUuid with only the exact-name test
FieldNameIsUuid_ExactOnly(fieldName) ==
    /\ fieldName # <<>>
    /\ fieldName[1] # <<>>
    /\ toLowerCase(fieldName[1]) = <<"u","u","i","d">>

\* the field-name test of the string case (lines 143-148)
FieldNameIsUuid(fieldName) ==
    /\ fieldName # <<>>
    /\ fieldName[1] # <<>>
    /\ LET lower == toLowerCase(fieldName[1])
       IN \/ lower = UuidWord
          \/ endsWith(lower, IdSuffix)
          \/ includes(lower, UuidWord)
          \/ includes(lower, GuidWord)

\* case 'string' (lines 135-160)
StringCase(schema, fieldName) ==
    <<"z.string()">>
    \o (IF TruthyStr(schema.pattern) /\ schema.pattern[1] \in HexGroupPatterns
          THEN <<".uuid()">>
        ELSE IF TruthyStr(schema.pattern)
          THEN <<".regex(/", schema.pattern[1], "/)">>
        ELSE IF FieldNameIsUuid(fieldName)
          THEN <<".uuid()">>
        ELSE <<>>)
    \o (IF schema.format = <<"date-time">> THEN <<".datetime()">> ELSE <<>>)
    \o Describe(schema)

\* case 'number' / 'integer' (lines 162-173)
NumberCase(schema) ==
    (IF schema.type = <<"integer">> THEN <<"z.number().int()">> ELSE <<"z.number()">>)
    \o (IF schema.minimum # <<>> THEN <<".min(", ToString(schema.minimum[1]), ")">> ELSE <<>>)
    \o (IF schema.maximum # <<>> THEN <<".max(", ToString(schema.maximum[1]), ")">> ELSE <<>>)
    \o Describe(schema)

\* ArrayLength without the equal-bounds branch
ArrayLength_MinMax(schema) ==
    (IF schema.minItems # <<>>
       THEN <<".min(", ToString(schema.minItems[1]), ")">> ELSE <<>>)
    \o (IF schema.maxItems # <<>>
       THEN <<".max(", ToString(schema.maxItems[1]), ")">> ELSE <<>>)

\* the length modifiers of an array with items (lines 189-198)
ArrayLength(schema) ==
    IF schema.minItems # <<>> /\ schema.maxItems # <<>>
       /\ schema.minItems[1] = schema.maxItems[1]
    THEN <<".length(", ToString(schema.minItems[1]), ")">>
    ELSE (IF schema.minItems # <<>>
            THEN <<".min(", ToString(schema.minItems[1]), ")">> ELSE <<>>)
         \o (IF schema.maxItems # <<>>
            THEN <<".max(", ToString(schema.maxItems[1]), ")">> ELSE <<>>)

\* OptionalModifier taking an absent required list as "all required"
OptionalModifier_AbsentMeansAll(schema, key) ==
    IF schema.required = <<>>
       \/ \E i \in 1..Len(schema.required[1]) : schema.required[1][i] = key
    THEN <<>>
    ELSE <<".optional()">>

\* schema.required?.includes(key) ? '' : '.optional()' (lines 211-212)
OptionalModifier(schema, key) ==
    IF schema.required # <<>>
       /\ \E i \in 1..Len(schema.required[1]) : schema.required[1][i] = key
    THEN <<>>
    ELSE <<".optional()">>

\* types.filter(t => t !== 'null') and types.includes('null') (lines 100-101)
NonNullTypes(types) == SelectSeq(types, LAMBDA t : t # "null")
HasNull(types) == \E i \in 1..Len(types) : types[i] = "null"

\* MultiTypeBranch taking the nullable branch only when null is listed last
MultiTypeBranch_NullLast(schema) ==
    IF ~schema.typeIsList THEN "none"
    ELSE IF Len(schema.type) = 2 /\ schema.type[2] = "null" /\ schema.type[1] # "null"
         THEN "nullable"
    ELSE IF Len(SelectSeq(schema.type, LAMBDA t : t # "null")) > 1 THEN "union"
    ELSE "none"

\* the branch of the multi-type block (lines 98-123) a node takes
MultiTypeBranch(schema) ==
    IF ~schema.typeIsList THEN "none"
    ELSE IF Len(NonNullTypes(schema.type)) = 1 /\ HasNull(schema.type) THEN "nullable"
    ELSE IF Len(NonNullTypes(schema.type)) > 1 THEN "union"
    ELSE "none"

RECURSIVE jsonSchemaToZod(_, _, _, _)
RECURSIVE ObjectFields(_, _, _, _)

\* one line per property, in Object.entries order (lines 208-215)
ObjectFields(schema, props, depth, subSchemas) ==
    [i \in 1..Len(props) |->
        Indent(depth) \o <<"  ">> \o formatPropertyName(props[i][1]) \o <<": ">>
        \o jsonSchemaToZod(props[i][2], depth + 1, subSchemas, <<props[i][1]>>)
        \o OptionalModifier(schema, props[i][1])]

\* switch (schema.type) (lines 134-233)
TypeDispatch(schema, depth, subSchemas, fieldName) ==
    LET tag == IF schema.typeIsList \/ schema.type = <<>> THEN "" ELSE schema.type[1]
    IN CASE tag = "string" -> StringCase(schema, fieldName)
         [] tag \in {"number", "integer"} -> NumberCase(schema)
         [] tag = "boolean" -> <<"z.boolean()">> \o Describe(schema)
         [] tag = "null" -> <<"z.null()">>
         [] tag = "array" ->
              IF schema.items # <<>>
              THEN <<"z.array(">> \o jsonSchemaToZod(schema.items[1], depth, subSchemas, <<>>)
                   \o <<")">> \o ArrayLength(schema) \o Describe(schema)
              ELSE <<"z.array(z.any())">>
         [] tag = "object" ->
              IF schema.properties # <<>>
              THEN <<"z.object({\n">>
                   \o join(ObjectFields(schema, schema.properties[1], depth, subSchemas),
                           <<",\n">>)
                   \o <<"\n">> \o Indent(depth) \o <<"})">> \o Describe(schema)
              ELSE IF schema.additionalProperties # <<>>
                      /\ "schema" \in DOMAIN schema.additionalProperties[1]
              THEN <<"z.record(">>
                   \o jsonSchemaToZod(schema.additionalProperties[1].schema,
                                      depth, subSchemas, <<>>)
                   \o <<")">>
              ELSE IF schema.additionalProperties # <<>>
                      /\ schema.additionalProperties[1].bool
              THEN <<"z.record(z.string())">>
              ELSE <<"z.object({})">>
         [] OTHER -> <<"z.any()">>

jsonSchemaToZod(schema, depth, subSchemas, fieldName) ==
    LET found == Lookup(subSchemas, Stringify(schema))
        types == schema.type
        branch == MultiTypeBranch(schema)
    IN IF found # <<>> THEN found[1].name
       ELSE IF branch = "nullable"
         THEN jsonSchemaToZod(WithType(schema, NonNullTypes(types)[1]),
                              depth, subSchemas, fieldName)
              \o <<".nullable()">>
       ELSE IF branch = "union"
         THEN <<"z.union([">>
              \o join([i \in 1..Len(NonNullTypes(types)) |->
                         jsonSchemaToZod(WithType(schema, NonNullTypes(types)[i]),
                                         depth, subSchemas, fieldName)], <<", ">>)
              \o <<"])">>
              \o (IF HasNull(types) THEN <<".nullable()">> ELSE <<>>)
              \o Describe(schema)
       ELSE IF schema.enum # <<>>
         THEN <<"z.enum([">>
              \o join([i \in 1..Len(schema.enum[1]) |-> <<"\"" \o schema.enum[1][i] \o "\"">>],
                      <<", ">>)
              \o <<"])">> \o Describe(schema)
       ELSE TypeDispatch(schema, depth, subSchemas, fieldName)

\* ------------------------------------------------------------------------
\* The invocations of jsonSchemaToZod that one call makes, itself included,
\* following the recursion of lines 106, 112, 188, 210 and 225
\* ------------------------------------------------------------------------
ExpandsObject(schema, subSchemas) ==
    /\ Lookup(subSchemas, Stringify(schema)) = <<>>
    /\ MultiTypeBranch(schema) = "none"
    /\ schema.enum = <<>>
    /\ ~schema.typeIsList
    /\ schema.type = <<"object">>
    /\ schema.properties # <<>>

RECURSIVE Calls(_, _, _, _)
Calls(schema, depth, subSchemas, fieldName) ==
    LET self == {[schema |-> schema, depth |-> depth, fieldName |-> fieldName]}
        branch == MultiTypeBranch(schema)
        nonNull == NonNullTypes(schema.type)
    IN IF Lookup(subSchemas, Stringify(schema)) # <<>> THEN self
       ELSE IF branch = "nullable"
         THEN self \cup Calls(WithType(schema, nonNull[1]), depth, subSchemas, fieldName)
       ELSE IF branch = "union"
         THEN self \cup UNION {Calls(WithType(schema, nonNull[i]), depth, subSchemas, fieldName)
                                 : i \in 1..Len(nonNull)}
       ELSE IF schema.enum # <<>> \/ schema.typeIsList THEN self
       ELSE IF schema.type = <<"array">> /\ schema.items # <<>>
         THEN self \cup Calls(schema.items[1], depth, subSchemas, <<>>)
       ELSE IF schema.type = <<"object">> /\ schema.properties # <<>>
         THEN self \cup UNION {Calls(schema.properties[1][i][2], depth + 1, subSchemas,
                                     <<schema.properties[1][i][1]>>)
                                 : i \in 1..Len(schema.properties[1])}
       ELSE IF schema.type = <<"object">> /\ schema.additionalProperties # <<>>
               /\ "schema" \in DOMAIN schema.additionalProperties[1]
         THEN self \cup Calls(schema.additionalProperties[1].schema, depth, subSchemas, <<>>)
       ELSE self

\* the signatures of the object nodes one call expands inline
InlineObjects(schema, subSchemas) ==
    {Stringify(c.schema) : c \in {d \in Calls(schema, 0, subSchemas, <<>>) :
                                     ExpandsObject(d.schema, subSchemas)}}

\* ------------------------------------------------------------------------
\* findSubSchemas (JsonToZod.ts:54-77)
\* ------------------------------------------------------------------------
IsObjectWithProperties(schema) ==
    ~schema.typeIsList /\ schema.type = <<"object">> /\ schema.properties # <<>>

IsArrayWithItems(schema) ==
    ~schema.typeIsList /\ schema.type = <<"array">> /\ schema.items # <<>>

\* Map.prototype.set: an existing key keeps its position
MapSet(map, entry) ==
    IF \E i \in 1..Len(map) : map[i].key = entry.key
    THEN [i \in 1..Len(map) |-> IF map[i].key = entry.key THEN entry ELSE map[i]]
    ELSE Append(map, entry)

NameTaken(subs, name) == \E i \in 1..Len(subs) : subs[i].name = name

\* RegisterSubSchema without the test that the path lies below the root
RegisterSubSchema_NoPathTest(schema, currentPath, subs, vis) ==
    LET schemaStr == Stringify(schema)
        name == generateSchemaName(currentPath)
    IN IF schemaStr \notin vis /\ ~(\E i \in 1..Len(subs) : subs[i].name = name)
       THEN [subSchemas |-> Append(subs, [key |-> schemaStr, name |-> name,
                                          schema |-> schema, path |-> currentPath]),
             visited |-> vis \cup {schemaStr}]
       ELSE [subSchemas |-> subs, visited |-> vis]

\* lines 61-69: the discovery map and the visited set after the node at
\* currentPath has been looked at
RegisterSubSchema(schema, currentPath, subs, vis) ==
    LET schemaStr == Stringify(schema)
        name == generateSchemaName(currentPath)
    IN IF schemaStr \notin vis /\ includes(currentPath, <<".">>)
          /\ ~NameTaken(subs, name)
       THEN [subSchemas |-> MapSet(subs, [key |-> schemaStr, name |-> name,
                                          schema |-> schema, path |-> currentPath]),
             visited |-> vis \cup {schemaStr}]
       ELSE [subSchemas |-> subs, visited |-> vis]

\* lines 63-65: a candidate name is generated for the node and an entry
\* already carries it
LosesNameCollision(schema, currentPath, subs, vis) ==
    /\ IsObjectWithProperties(schema)
    /\ Stringify(schema) \notin vis
    /\ includes(currentPath, <<".">>)
    /\ NameTaken(subs, generateSchemaName(currentPath))

\* lines 71-75: the recursive calls a node makes, in call order
ChildFrames(schema, currentPath) ==
    IF IsObjectWithProperties(schema)
    THEN [i \in 1..Len(schema.properties[1]) |->
            [schema |-> schema.properties[1][i][2],
             path |-> currentPath \o <<".">> \o schema.properties[1][i][1]]]
    ELSE IF IsArrayWithItems(schema)
    THEN <<[schema |-> schema.items[1], path |-> currentPath \o <<".">> \o ItemsWord]>>
    ELSE <<>>

\* ------------------------------------------------------------------------
\* generateZodSchema (JsonToZod.ts:236-287)
\* ------------------------------------------------------------------------
\* path.split('.').length (lines 251-252)
PathDepth(path) == Len(split(path, "."))

\* Array.prototype.sort with (a, b) => depthB - depthA: stable, deepest first
RECURSIVE InsertByDepth(_, _)
InsertByDepth(sorted, e) ==
    IF sorted = <<>> THEN <<e>>
    ELSE IF PathDepth(Head(sorted).path) >= PathDepth(e.path)
         THEN <<Head(sorted)>> \o InsertByDepth(Tail(sorted), e)
         ELSE <<e>> \o sorted
RECURSIVE SortDeepestFirst(_)
SortDeepestFirst(entries) ==
    IF entries = <<>> THEN <<>>
    ELSE InsertByDepth(SortDeepestFirst(SubSeq(entries, 1, Len(entries) - 1)),
                       entries[Len(entries)])

\* s.name.replace('Schema', '') (line 269)
TypeAliasName(name) == replace(name, SchemaSuffix, <<>>)

\* lines 268-270
TypeExports(processed) ==
    join([i \in 1..Len(processed) |->
            <<"export type ">> \o TypeAliasName(processed[i].name)
            \o <<" = z.infer<typeof ">> \o processed[i].name \o <<">;">>], <<"\n">>)

\* lines 272-279
OutputCode(subCode, rootCode, exports) ==
    <<"import { z } from 'zod';\n\n// Generated from: ", "auto_schema.json", "\n">>
    \o subCode
    \o <<"export const schema = ">> \o rootCode
    \o <<";\n\nexport type SchemaType = z.infer<typeof schema>;\n">>
    \o (IF exports # <<>> THEN <<"\n">> \o exports ELSE <<>>)
    \o <<"\n">>

\* ------------------------------------------------------------------------
\* Input documents
\* ------------------------------------------------------------------------
Obj(props, req) ==
    [EmptyNode EXCEPT !.type = <<"object">>, !.properties = <<props>>, !.required = req]
Arr(items) == [EmptyNode EXCEPT !.type = <<"array">>, !.items = <<items>>]
Nullable(schema) == [schema EXCEPT !.type = <<schema.type[1], "null">>, !.typeIsList = TRUE]

kA == <<"a">>
kC == <<"c">>
kN == <<"n">>
kT == <<"t">>
kX == <<"x">>
kY == <<"y">>
kUuid == <<"u","u","i","d">>
kSchemaX == <<"s","c","h","e","m","a","_","x">>

\* two object shapes, and subtrees that hold them at different depths
ShapeS == Obj(<< <<kUuid, Typed("string")>> >>, << <<kUuid>> >>)
ShapeA == Obj(<< <<kN, Typed("boolean")>> >>, <<>>)

Pool == { ShapeS,
          ShapeA,
          Typed("string"),
          Arr(ShapeS),
          Nullable(ShapeS),
          [ShapeS EXCEPT !.ord = KeyOrderPropsFirst],
          Obj(<< <<kX, ShapeS>>, <<kY, ShapeS>> >>, << <<kX>> >>),
          Obj(<< <<kT, Obj(<< <<kC, ShapeS>> >>, <<>>)>> >>, <<>>) }

RootKeys == {kA, kX, kSchemaX}

\* the number of properties of a generated root object
MaxProps == 2

RootProps ==
    UNION {{p \in [1..n -> RootKeys \X Pool] :
              \A i, j \in 1..n : i # j => p[i][1] # p[j][1]} : n \in 1..MaxProps}

Documents ==
    {Obj(p, <<>>) : p \in RootProps}
    \cup {Arr(ShapeS), Typed("string"), EmptyNode}

\* ------------------------------------------------------------------------
\* State
\* ------------------------------------------------------------------------
VARIABLES
    doc,               \* jsonSchema: the parsed input document (line 243)
    pc,                \* the position in generateZodSchema
    stack,             \* the pending findSubSchemas calls, next call first
    subSchemas,        \* the discovery map (line 245)
    visited,           \* the visited set of findSubSchemas (line 58)
    sortedSubSchemas,  \* line 249
    next,              \* the index in sortedSubSchemas of the loop of line 259
    processedSchemas,  \* line 257
    subSchemaCode,     \* line 256
    zodSchemaCode,     \* line 265
    outputCode,        \* line 272
    expanded,          \* per translation run so far: the signatures it expanded inline
    refused,           \* the signatures whose registration lost a name collision
    call,              \* the arguments of a single jsonSchemaToZod call
    ret                \* and what it returned

vars == <<doc, pc, stack, subSchemas, visited, sortedSubSchemas, next,
          processedSchemas, subSchemaCode, zodSchemaCode, outputCode, expanded,
          refused, call, ret>>

pipelineVars == <<doc, stack, subSchemas, visited, sortedSubSchemas, next,
                  processedSchemas, subSchemaCode, zodSchemaCode, outputCode, expanded,
                  refused>>

Init ==
    /\ doc \in Documents
    /\ pc = "start"
    /\ stack = <<>>
    /\ subSchemas = <<>>
    /\ visited = {}
    /\ sortedSubSchemas = <<>>
    /\ next = 1
    /\ processedSchemas = <<>>
    /\ subSchemaCode = <<>>
    /\ zodSchemaCode = <<>>
    /\ outputCode = <<>>
    /\ expanded = <<>>
    /\ refused = {}
    /\ call = <<>>
    /\ ret = <<>>

\* lines 237-240: the file does not exist
FileMissing ==
    /\ pc = "start"
    /\ pc' = "exit"
    /\ UNCHANGED <<pipelineVars, call, ret>>

\* lines 242-246: the document is parsed and findSubSchemas is called on it
ReadFile ==
    /\ pc = "start"
    /\ stack' = <<[schema |-> doc, path |-> <<>>]>>
    /\ pc' = "walk"
    /\ UNCHANGED <<doc, subSchemas, visited, sortedSubSchemas, next, processedSchemas,
                   subSchemaCode, zodSchemaCode, outputCode, expanded, refused, call, ret>>

\* one call of findSubSchemas (lines 60-76): the node is looked at and its
\* recursive calls are pending before the calls of its callers
WalkStep ==
    /\ pc = "walk"
    /\ stack # <<>>
    /\ LET frame == Head(stack)
           reg == IF IsObjectWithProperties(frame.schema)
                  THEN RegisterSubSchema(frame.schema, frame.path, subSchemas, visited)
                  ELSE [subSchemas |-> subSchemas, visited |-> visited]
           rest == ChildFrames(frame.schema, frame.path) \o Tail(stack)
       IN /\ subSchemas' = reg.subSchemas
          /\ visited' = reg.visited
          /\ stack' = rest
          /\ pc' = IF rest = <<>> THEN "sort" ELSE "walk"
          /\ refused' = IF LosesNameCollision(frame.schema, frame.path, subSchemas, visited)
                        THEN refused \cup {Stringify(frame.schema)}
                        ELSE refused
    /\ UNCHANGED <<doc, sortedSubSchemas, next, processedSchemas, subSchemaCode,
                   zodSchemaCode, outputCode, expanded, call, ret>>

\* lines 249-257
SortEntries ==
    /\ pc = "sort"
    /\ sortedSubSchemas' = SortDeepestFirst(subSchemas)
    /\ next' = 1
    /\ pc' = "translate"
    /\ UNCHANGED <<doc, stack, subSchemas, visited, processedSchemas, subSchemaCode,
                   zodSchemaCode, outputCode, expanded, refused, call, ret>>

\* TranslateEntry consulting the discovery map instead of the registry
TranslateEntry_DiscoveryMap ==
    /\ pc = "translate"
    /\ next <= Len(sortedSubSchemas)
    /\ LET subSchema == sortedSubSchemas[next]
           zodCode == jsonSchemaToZod(subSchema.schema, 0, subSchemas, <<>>)
       IN /\ subSchemaCode' = subSchemaCode \o <<"const ">> \o subSchema.name
                              \o <<" = ">> \o zodCode \o <<";\n\n">>
          /\ expanded' = Append(expanded,
                                [of |-> subSchema.key,
                                 inline |-> InlineObjects(subSchema.schema, subSchemas)])
          /\ processedSchemas' = MapSet(processedSchemas, subSchema)
    /\ next' = next + 1
    /\ UNCHANGED <<doc, pc, stack, subSchemas, visited, sortedSubSchemas,
                   zodSchemaCode, outputCode, refused, call, ret>>

\* one iteration of the loop of lines 259-263
TranslateEntry ==
    /\ pc = "translate"
    /\ next <= Len(sortedSubSchemas)
    /\ LET subSchema == sortedSubSchemas[next]
           zodCode == jsonSchemaToZod(subSchema.schema, 0, processedSchemas, <<>>)
       IN /\ subSchemaCode' = subSchemaCode \o <<"const ">> \o subSchema.name
                              \o <<" = ">> \o zodCode \o <<";\n\n">>
          /\ expanded' = Append(expanded,
                                [of |-> subSchema.key,
                                 inline |-> InlineObjects(subSchema.schema, processedSchemas)])
          /\ processedSchemas' = MapSet(processedSchemas, subSchema)
    /\ next' = next + 1
    /\ UNCHANGED <<doc, pc, stack, subSchemas, visited, sortedSubSchemas,
                   zodSchemaCode, outputCode, refused, call, ret>>

\* line 265
TranslateRoot ==
    /\ pc = "translate"
    /\ next > Len(sortedSubSchemas)
    /\ zodSchemaCode' = jsonSchemaToZod(doc, 0, processedSchemas, <<>>)
    /\ expanded' = Append(expanded,
                          [of |-> <<>>, inline |-> InlineObjects(doc, processedSchemas)])
    /\ pc' = "assemble"
    /\ UNCHANGED <<doc, stack, subSchemas, visited, sortedSubSchemas, next,
                   processedSchemas, subSchemaCode, outputCode, refused, call, ret>>

\* lines 267-285
Assemble ==
    /\ pc = "assemble"
    /\ outputCode' = OutputCode(subSchemaCode, zodSchemaCode, TypeExports(processedSchemas))
    /\ pc' = "done"
    /\ UNCHANGED <<doc, stack, subSchemas, visited, sortedSubSchemas, next,
                   processedSchemas, subSchemaCode, zodSchemaCode, expanded, refused, call, ret>>

Next ==
    \/ FileMissing
    \/ ReadFile
    \/ WalkStep
    \/ SortEntries
    \/ TranslateEntry
    \/ TranslateRoot
    \/ Assemble

Spec == Init /\ [][Next]_vars

\* ------------------------------------------------------------------------
\* Single calls of jsonSchemaToZod: the arguments are drawn from the sets
\* below, the call is made, and its result is kept
\* ------------------------------------------------------------------------
\* the largest minItems / maxItems of a generated array node
MaxLen == 2
\* the largest nesting depth a single call is made at
MaxDepth == 1

kS == <<"s">>
kMyKey == <<"m","y","-","k","e","y">>

Lengths == {<<>>} \cup {<<k>> : k \in 0..MaxLen}
Descriptions == {<<>>, <<"d">>}
Enums == {<<>>, << <<"on", "off">> >>}

StringNodes ==
    {[Typed("string") EXCEPT !.enum = e, !.format = f, !.description = d, !.pattern = p] :
        e \in Enums, f \in {<<>>, <<"date-time">>}, d \in Descriptions \cup {<<"">>},
        p \in {<<>>, <<"">>, <<"^a+$">>, <<"^[0-9a-fA-F]{8}-[0-9a-fA-F]{4}$">>}}

ArrayNodes ==
    {[Typed("array") EXCEPT !.items = it, !.minItems = lo, !.maxItems = hi,
                            !.enum = e, !.description = d] :
        it \in {<<>>, <<Typed("string")>>, <<ShapeS>>,
                <<[Typed("number") EXCEPT !.minimum = <<1>>]>>},
        lo \in Lengths, hi \in Lengths, e \in Enums, d \in Descriptions}

ObjectProps ==
    { << <<kUuid, Typed("string")>> >>,
      << <<kN, Typed("boolean")>>, <<kUuid, Typed("string")>> >>,
      << <<kS, ShapeS>>, <<kMyKey, Arr(ShapeA)>>, <<kN, ShapeA>> >>,
      <<>> }

ObjectNodes ==
    {[Obj(p, r) EXCEPT !.description = d, !.enum = e] :
        p \in ObjectProps,
        r \in {<<>>, << <<>> >>, << <<kUuid>> >>, << <<kN, kS>> >>, << <<kMyKey, kX>> >>},
        d \in Descriptions, e \in Enums}

OtherNodes ==
    { Typed("boolean"), Typed("null"), EmptyNode, Typed("date"),
      [Typed("integer") EXCEPT !.minimum = <<0>>, !.maximum = <<9>>],
      [Typed("number") EXCEPT !.maximum = <<9>>, !.description = <<"d">>],
      Typed("object"),
      [Typed("object") EXCEPT !.additionalProperties = <<[bool |-> TRUE]>>],
      [Typed("object") EXCEPT !.additionalProperties = <<[bool |-> FALSE]>>],
      [Typed("object") EXCEPT !.additionalProperties = <<[schema |-> ShapeS]>>] }

TagLists ==
    { <<"string", "null">>, <<"null", "string">>, <<"object", "null">>,
      <<"null", "array">>, <<"integer", "null">>, <<"null", "null">>,
      <<"string", "integer">>, <<"string", "integer", "null">>,
      <<"null", "object", "string">>, <<"string">>, <<"null">>, <<>>,
      <<"string", "null", "null">> }

MultiTypeNodes ==
    {[n EXCEPT !.type = ts, !.typeIsList = TRUE] :
        n \in { Typed("string"),
                [Typed("string") EXCEPT !.description = <<"d">>],
                [Typed("string") EXCEPT !.enum = << <<"on", "off">> >>],
                [Typed("string") EXCEPT !.format = <<"date-time">>],
                ShapeS,
                [Arr(Typed("string")) EXCEPT !.minItems = <<1>>, !.maxItems = <<1>>] },
        ts \in TagLists}

CallNodes == StringNodes \cup ArrayNodes \cup ObjectNodes \cup OtherNodes \cup MultiTypeNodes

FieldNames ==
    { <<>>, << <<>> >>, <<kUuid>>, <<kX>>,
      << <<"U","U","I","D">> >>,
      << <<"u","s","e","r","_","I","d">> >>,
      << <<"m","y","G","u","i","d">> >>,
      << <<"u","u","i","d","s">> >>,
      << <<"i","d">> >>,
      << <<"_","i","d","x">> >> }

\* a Processed Registry that holds ShapeS, as after its translation
RegistryS == <<[key |-> Stringify(ShapeS), name |-> generateSchemaName(<<".">> \o kS),
                schema |-> ShapeS, path |-> <<".">> \o kS]>>

InitT ==
    /\ call \in [schema : CallNodes, depth : 0..MaxDepth,
                 subSchemas : {<<>>, RegistryS}, fieldName : FieldNames]
    /\ ret = <<>>
    /\ pc = "call"
    /\ doc = EmptyNode
    /\ stack = <<>>
    /\ subSchemas = <<>>
    /\ visited = {}
    /\ sortedSubSchemas = <<>>
    /\ next = 1
    /\ processedSchemas = <<>>
    /\ subSchemaCode = <<>>
    /\ zodSchemaCode = <<>>
    /\ outputCode = <<>>
    /\ expanded = <<>>
    /\ refused = {}

\* one call of jsonSchemaToZod (lines 79-234)
Translate ==
    /\ pc = "call"
    /\ ret' = jsonSchemaToZod(call.schema, call.depth, call.subSchemas, call.fieldName)
    /\ pc' = "returned"
    /\ UNCHANGED <<pipelineVars, call>>

NextT == Translate

SpecT == InitT /\ [][NextT]_vars

\* ------------------------------------------------------------------------
\* Reading emitted text
\* ------------------------------------------------------------------------
\* the chunks of text from i on are n indentation units
IsIndentRun(text, i, n) ==
    /\ i + n - 1 <= Len(text)
    /\ \A j \in 0..(n - 1) : text[i + j] = "  "

\* chunk i opens a field line of the object literal that text starts with:
\* the literal's header or a ",\n", then exactly depth + 1 indentation units
FieldStart(text, depth, i) ==
    /\ \/ i = 1 /\ text[1] = "z.object({\n"
       \/ text[i] = ",\n"
    /\ i + depth + 2 <= Len(text)
    /\ IsIndentRun(text, i + 1, depth + 1)
    /\ text[i + depth + 2] # "  "

FieldStarts(text, depth) == {i \in 1..Len(text) : FieldStart(text, depth, i)}

\* the chunk that closes the object literal that text starts with
ObjectClose(text) ==
    CHOOSE i \in 1..Len(text) : text[i] = "})" /\ \A j \in (i + 1)..Len(text) : text[j] # "})"

NthSmallest(S, j) == CHOOSE x \in S : Cardinality({y \in S : y < x}) = j - 1

\* the j-th field line, without the separator before it
FieldText(text, depth, j) ==
    LET starts == FieldStarts(text, depth)
        from == NthSmallest(starts, j) + 1
        to == IF j < Cardinality(starts)
              THEN NthSmallest(starts, j + 1) - 1
              ELSE ObjectClose(text) - depth - 2
    IN SubSeq(text, from, to)

Contains(text, chunk) == \E i \in 1..Len(text) : text[i] = chunk

\* text without a trailing .describe(...)
StripDescribe(text) ==
    IF Len(text) >= 3 /\ text[Len(text) - 2] = ".describe("
    THEN SubSeq(text, 1, Len(text) - 3)
    ELSE text

RequiredSet(schema) ==
    IF schema.required = <<>> THEN {}
    ELSE {schema.required[1][i] : i \in 1..Len(schema.required[1])}

\* ------------------------------------------------------------------------
\* C2
\* ------------------------------------------------------------------------
C2_Expanded == pc = "returned" /\ ExpandsObject(call.schema, call.subSchemas)

C3_ExactArray ==
    /\ pc = "returned"
    /\ ~call.schema.typeIsList
    /\ call.schema.type = <<"array">>
    /\ call.schema.minItems # <<>>
    /\ call.schema.maxItems # <<>>
    /\ call.schema.minItems[1] = call.schema.maxItems[1]

\* the modifiers the returned text chains onto the array validator itself:
\* what follows the element validator and the parenthesis closing z.array(
C3_ArrayModifiers ==
    IF call.schema.items # <<>> /\ ret # <<>> /\ ret[1] = "z.array("
    THEN SubSeq(ret, Len(jsonSchemaToZod(call.schema.items[1], call.depth,
                                         call.subSchemas, <<>>)) + 3, Len(ret))
    ELSE Tail(ret)

C3_LengthOnly ==
    /\ \E i \in 1..(Len(C3_ArrayModifiers) - 1) :
         /\ C3_ArrayModifiers[i] = ".length("
         /\ C3_ArrayModifiers[i + 1] = ToString(call.schema.minItems[1])
    /\ ~Contains(C3_ArrayModifiers, ".min(")
    /\ ~Contains(C3_ArrayModifiers, ".max(")

\* C3 as stated: every array node with minItems = maxItems = k, with or
\* without items, gets .length(k) and neither .min nor .max.
C3_AsStated == C3_ExactArray => C3_LengthOnly

\* C3 amended: an array node with minItems = maxItems = k that has an items
\* schema and no enum gets .length(k) and neither .min nor .max on the array.
C3_ExactLength ==
    (C3_ExactArray /\ call.schema.items # <<>> /\ call.schema.enum = <<>>)
        => C3_LengthOnly

\* such an array whose element validator carries a .min of its own
C3_Witness ==
    /\ C3_ExactArray
    /\ call.schema.items # <<>>
    /\ call.schema.enum = <<>>
    /\ call.schema.minItems[1] >= 1
    /\ call.schema.items[1].minimum # <<>>

\* ------------------------------------------------------------------------
\* C4
\* ------------------------------------------------------------------------
\* the property name, lower-cased, is "uuid", ends with "_id", or contains
\* "uuid" or "guid"
C4_UuidLikeName(name) ==
    LET lower == toLowerCase(name)
    IN \/ lower = <<"u","u","i","d">>
       \/ endsWith(lower, <<"_","i","d">>)
       \/ includes(lower, <<"u","u","i","d">>)
       \/ includes(lower, <<"g","u","i","d">>)

C4_StringUnderUuidName ==
    /\ pc = "returned"
    /\ call.fieldName # <<>>
    /\ C4_UuidLikeName(call.fieldName[1])
    /\ call.schema.pattern = <<>>
    /\ \/ ~call.schema.typeIsList /\ call.schema.type = <<"string">>
       \/ call.schema.typeIsList
          /\ call.schema.type \in {<<"string", "null">>, <<"null", "string">>}

\* C4 as stated: a string node without pattern under such a property name
\* gets .uuid(), whatever else it has (enum included).
C4_AsStated == C4_StringUnderUuidName => Contains(ret, ".uuid()")

\* C4 amended: a string node without pattern and without enum under such a
\* property name gets .uuid(), whatever its format and description, also
\* when its type is the list of string and null.
C4_UuidByFieldName ==
    (C4_StringUnderUuidName /\ call.schema.enum = <<>>) => Contains(ret, ".uuid()")

\* a nullable date-time string with a description under the name "user_Id"
C4_Witness ==
    /\ C4_StringUnderUuidName
    /\ call.schema.enum = <<>>
    /\ call.schema.typeIsList
    /\ call.schema.format = <<"date-time">>
    /\ call.fieldName[1] = <<"u","s","e","r","_","I","d">>

\* ------------------------------------------------------------------------
\* C5
\* ------------------------------------------------------------------------
C5_NullCount(types) == Cardinality({i \in 1..Len(types) : types[i] = "null"})

C5_OneTagAndNull ==
    /\ pc = "returned"
    /\ call.schema.typeIsList
    /\ Len(call.schema.type) = 2
    /\ C5_NullCount(call.schema.type) = 1

C5_TheOtherTag ==
    IF call.schema.type[1] = "null" THEN call.schema.type[2] ELSE call.schema.type[1]

\* C5: a node whose type lists one tag and null (either order) returns the
\* translation of the node with that single tag, then .nullable(), and no
\* union; a union is returned only for a type list with two or more
\* non-null tags, and .nullable() follows its closing bracket exactly when
\* null is listed.
C5_NullableNotUnion ==
    /\ C5_OneTagAndNull =>
         /\ ret = jsonSchemaToZod(WithType(call.schema, C5_TheOtherTag), call.depth,
                                  call.subSchemas, call.fieldName) \o <<".nullable()">>
         /\ ret[1] # "z.union(["
    /\ (pc = "returned" /\ ret[1] = "z.union([") =>
         /\ call.schema.typeIsList
         /\ Len(call.schema.type) - C5_NullCount(call.schema.type) > 1
         /\ LET core == StripDescribe(ret)
            IN IF C5_NullCount(call.schema.type) > 0
               THEN /\ core[Len(core)] = ".nullable()"
                    /\ core[Len(core) - 1] = "])"
               ELSE core[Len(core)] = "])"

\* a list with null first and one other tag, returned as a nullable
C5_Witness ==
    /\ C5_OneTagAndNull
    /\ call.schema.type[1] = "null"
    /\ ret[Len(ret)] = ".nullable()"

\* a union of two tags with null
C5_WitnessUnion ==
    /\ pc = "returned"
    /\ ret[1] = "z.union(["
    /\ C5_NullCount(call.schema.type) = 1

\* ------------------------------------------------------------------------
\* The nodes of a document
\* ------------------------------------------------------------------------
\* the nodes nested strictly inside schema, each with the sequence of steps
\* (property names, "items", "additionalProperties") leading to it from at
RECURSIVE SubNodes(_, _)
SubNodes(schema, at) ==
    LET props == IF schema.properties = <<>> THEN <<>> ELSE schema.properties[1]
        viaProps == UNION {{[at |-> Append(at, props[i][1]), schema |-> props[i][2]]}
                           \cup SubNodes(props[i][2], Append(at, props[i][1]))
                             : i \in 1..Len(props)}
        viaItems == IF schema.items = <<>> THEN {}
                    ELSE {[at |-> Append(at, ItemsWord), schema |-> schema.items[1]]}
                         \cup SubNodes(schema.items[1], Append(at, ItemsWord))
        viaExtra == IF schema.additionalProperties # <<>>
                       /\ "schema" \in DOMAIN schema.additionalProperties[1]
                    THEN {[at |-> Append(at, <<"+">>),
                           schema |-> schema.additionalProperties[1].schema]}
                         \cup SubNodes(schema.additionalProperties[1].schema,
                                       Append(at, <<"+">>))
                    ELSE {}
    IN viaProps \cup viaItems \cup viaExtra

\* the signatures that two or more distinct non-root object nodes with
\* properties share
SharedSignatures ==
    LET objs == {n \in SubNodes(doc, <<>>) : IsObjectWithProperties(n.schema)}
    IN {Stringify(n.schema) :
          n \in {m \in objs : \E o \in objs :
                    o.at # m.at /\ Stringify(o.schema) = Stringify(m.schema)}}

\* the declarations `const <name> = ` in the output text
DeclarationsOf(name) ==
    {i \in 1..Len(outputCode) :
        /\ outputCode[i] = "const "
        /\ i + Len(name) + 1 <= Len(outputCode)
        /\ SubSeq(outputCode, i + 1, i + Len(name) + 1) = name \o <<" = ">>}

\* ------------------------------------------------------------------------
\* C1
\* ------------------------------------------------------------------------
\* C1 as stated: in the finished output every shared signature S has exactly
\* one declaration, and no other declaration, nor the root's, expands a node
\* with signature S inline.
C1_AsStated ==
    pc = "done" =>
        \A S \in SharedSignatures :
            /\ Len(Lookup(processedSchemas, S)) = 1
            /\ Cardinality(DeclarationsOf(Lookup(processedSchemas, S)[1].name)) = 1
            /\ \A i \in 1..Len(expanded) :
                 expanded[i].of # S => S \notin expanded[i].inline

\* ------------------------------------------------------------------------
\* C6
\* ------------------------------------------------------------------------
\* name without the "Schema" that generateSchemaName appended to it
C6_WithoutSuffix(name) == SubSeq(name, 1, Len(name) - Len(SchemaSuffix))

C6_RootExport == ";\n\nexport type SchemaType = z.infer<typeof schema>;\n"

\* the output text that follows the root's type export
C6_AfterRootExport ==
    LET i == CHOOSE k \in 1..Len(outputCode) : outputCode[k] = C6_RootExport
    IN SubSeq(outputCode, i + 1, Len(outputCode))

C6_ExpectedExports ==
    join([i \in 1..Len(processedSchemas) |->
            <<"export type ">> \o C6_WithoutSuffix(processedSchemas[i].name)
            \o <<" = z.infer<typeof ">> \o processedSchemas[i].name \o <<">;">>],
         <<"\n">>)

\* C6 as stated: the output holds the root's type export and then one export
\* per declaration, whose alias is the declaration's name without its
\* trailing "Schema".
C6_AsStated ==
    pc = "done" =>
        /\ Cardinality({k \in 1..Len(outputCode) : outputCode[k] = C6_RootExport}) = 1
        /\ C6_AfterRootExport =
             (IF processedSchemas = <<>> THEN <<>> ELSE <<"\n">> \o C6_ExpectedExports)
             \o <<"\n">>

\* ------------------------------------------------------------------------
\* C8
\* ------------------------------------------------------------------------
\* C8 as stated: when the loop is about to translate an entry, every
\* discovered entry whose signature occurs strictly inside that entry's node
\* is in the Processed Registry.
C8_AsStated ==
    (pc = "translate" /\ next <= Len(sortedSubSchemas)) =>
        LET inside == {Stringify(n.schema) :
                         n \in SubNodes(sortedSubSchemas[next].schema, <<>>)}
        IN \A i \in 1..Len(subSchemas) :
             subSchemas[i].key \in inside
                => Lookup(processedSchemas, subSchemas[i].key) # <<>>

\* ------------------------------------------------------------------------
\* C9
\* ------------------------------------------------------------------------
\* C9 as stated: a findSubSchemas call on a non-root object node with
\* properties and an unvisited signature leaves the signature visited,
\* whether or not an entry was registered.
C9_AsStated ==
    [][(/\ pc = "walk"
        /\ stack # <<>>
        /\ IsObjectWithProperties(Head(stack).schema)
        /\ Stringify(Head(stack).schema) \notin visited
        /\ includes(Head(stack).path, <<".">>))
       => Stringify(Head(stack).schema) \in visited']_vars

\* ------------------------------------------------------------------------
\* C10
\* ------------------------------------------------------------------------
\* C10: once findSubSchemas has returned, every entry of the discovery map
\* is keyed by the signature of its node, the node has type "object" and
\* properties, the path starts below the root, and no entry is the root.
C10_EntriesAreNestedObjects ==
    pc \in {"sort", "translate", "assemble", "done"} =>
        \A i \in 1..Len(subSchemas) :
            LET e == subSchemas[i]
            IN /\ e.key = Stringify(e.schema)
               /\ ~e.schema.typeIsList
               /\ e.schema.type = <<"object">>
               /\ e.schema.properties # <<>>
               /\ e.path # <<>>
               /\ e.path[1] = "."
               /\ Len(split(e.path, ".")) >= 2
               /\ e.key # Stringify(doc)

\* the walk of an object root has returned with two entries
C10_Witness ==
    /\ pc = "sort"
    /\ IsObjectWithProperties(doc)
    /\ Len(subSchemas) >= 2

\* ------------------------------------------------------------------------
\* C11
\* ------------------------------------------------------------------------
\* a character of a generated identifier
C11_NameChar(c) == IsLetter(c) \/ c \in Digits \cup {"$"}

\* the chunks after which a validator expression starts
C11_ValueOpeners ==
    {" = ", "export const schema = ", ": ", "z.array(", "z.record(", "z.union([", ", "}

\* the places of the output where a validator expression is a bare name
C11_ReferenceStarts ==
    {i \in 2..Len(outputCode) :
        outputCode[i - 1] \in C11_ValueOpeners /\ C11_NameChar(outputCode[i])}

\* the name that starts at chunk i: the characters up to the next chunk that is
\* no identifier character
C11_NameAt(i) ==
    LET stop == CHOOSE k \in (i + 1)..(Len(outputCode) + 1) :
                  /\ k = Len(outputCode) + 1 \/ ~C11_NameChar(outputCode[k])
                  /\ \A j \in i..(k - 1) : C11_NameChar(outputCode[j])
    IN SubSeq(outputCode, i, stop - 1)

\* chunk d opens a declaration of name that is complete before chunk i
C11_DeclaredBefore(name, d, i) ==
    /\ d < i
    /\ outputCode[d] = "const "
    /\ d + Len(name) + 1 < i
    /\ SubSeq(outputCode, d + 1, d + Len(name) + 1) = name \o <<" = ">>
    /\ \E e \in (d + 1)..(i - 1) : outputCode[e] = ";\n\n"

\* C11: in the finished output every bare name in a declaration body, the
\* root's included, is the name of a sub-schema declaration that is complete
\* earlier in the text: no reference to the declaration itself, to a later
\* one, or to a name never declared.
C11_ReferencesDeclaredEarlier ==
    pc = "done" =>
        \A i \in C11_ReferenceStarts :
            \E d \in 1..i : C11_DeclaredBefore(C11_NameAt(i), d, i)

\* a sub-schema declaration whose body refers to an earlier declaration, in an
\* output that declares three sub-schemas
C11_Witness ==
    /\ pc = "done"
    /\ Len(processedSchemas) >= 3
    /\ \E i \in C11_ReferenceStarts :
         \E r \in (i + 1)..Len(outputCode) : outputCode[r] = "export const schema = "

\* ------------------------------------------------------------------------
\* C12
\* ------------------------------------------------------------------------
\* no two entries of the discovery map carry the same name
C12_NamesDistinct ==
    \A i, j \in 1..Len(subSchemas) :
        subSchemas[i].name = subSchemas[j].name => i = j

\* the names the output declares, each declared once
C12_DeclaredOnce ==
    \A i \in 1..Len(processedSchemas) :
        Cardinality(DeclarationsOf(processedSchemas[i].name)) = 1

\* the first two parts of C12: after the walk the names of the entries are
\* pairwise distinct, and the finished output declares each of them once
C12_UniqueNames ==
    /\ pc \in {"sort", "translate", "assemble", "done"} => C12_NamesDistinct
    /\ pc = "done" => C12_DeclaredOnce

\* C12 as stated: after the walk the names of the entries are pairwise
\* distinct, the output declares no name twice, and a signature whose
\* candidate name was taken by another entry has no entry and is expanded
\* inline by a translation.
C12_AsStated ==
    /\ C12_UniqueNames
    /\ pc = "done" =>
         \A S \in refused :
            /\ Lookup(subSchemas, S) = <<>>
            /\ \E i \in 1..Len(expanded) : S \in expanded[i].inline

====
